---- MODULE Spec2Model ----
(***************************************************************************)
(* Model of the two diagnostic comparison scripts of the repository:       *)
(*   compare_checkers.py          (ty, pyrefly, pyright, pyre)             *)
(*   compare_pyright_pyrefly.py   (pyright, pyrefly)                       *)
(* A Python str is modelled as a sequence of one-character strings, so     *)
(* that startswith/endswith/split/strip/int and the regular expression     *)
(* are computed character by character as the code computes them.          *)
(***************************************************************************)
EXTENDS Integers, Sequences, FiniteSets, TLC

\* Largest number of lines the checkers print in one run, all tools together.
MaxLines == 3

(***************************************************************************)
(* Python str primitives                                                   *)
(***************************************************************************)

\* The characters of the modelled texts, in code point order.
Alphabet ==
  <<"\t", "\n", "\r", " ", "+", "-", ".", "/", "0", "1", "2", "3",
    "4", "5", "6", "7", "8", "9", ":", "E", "F", "I", "N", "O",
    "R", "U", "[", "]", "_", "a", "b", "d", "e", "f", "g", "i",
    "j", "k", "l", "m", "n", "o", "p", "q", "r", "s", "t", "u",
    "v", "x", "y", "z">>

\* ord(c): position in code point order.
Ord(c) == CHOOSE i \in 1..Len(Alphabet) : Alphabet[i] = c

\* Python's s1 < s2 on str: lexicographic by code point.
StrLess(s1, s2) ==
  \E i \in 1..(Len(s2)) :
    /\ \A j \in 1..(i - 1) : j <= Len(s1) /\ s1[j] = s2[j]
    /\ \/ i = Len(s1) + 1
       \/ i <= Len(s1) /\ Ord(s1[i]) < Ord(s2[i])

\* str.startswith
StartsWith(s, prefix) ==
  Len(s) >= Len(prefix) /\ SubSeq(s, 1, Len(prefix)) = prefix

\* str.endswith
EndsWith(s, suffix) ==
  Len(s) >= Len(suffix) /\ SubSeq(s, Len(s) - Len(suffix) + 1, Len(s)) = suffix

\* Index of the first character of s that lies in the set cs, 0 when none does.
FirstIn(s, cs) ==
  IF \E i \in 1..Len(s) : s[i] \in cs
  THEN CHOOSE i \in 1..Len(s) : s[i] \in cs /\ \A j \in 1..(i - 1) : s[j] \notin cs
  ELSE 0

\* str.split(sep) for a one-character sep: always at least one field.
RECURSIVE Split(_, _)
Split(s, sep) ==
  LET i == FirstIn(s, {sep})
  IN IF i = 0 THEN <<s>>
     ELSE <<SubSeq(s, 1, i - 1)>> \o Split(SubSeq(s, i + 1, Len(s)), sep)

\* sep.join(parts)
RECURSIVE Join(_, _)
Join(parts, sep) ==
  IF parts = <<>> THEN <<>>
  ELSE IF Len(parts) = 1 THEN parts[1]
  ELSE parts[1] \o <<sep>> \o Join(Tail(parts), sep)

\* str.splitlines(): breaks at \n, \r and \r\n; no empty last line.
RECURSIVE splitlines(_)
splitlines(s) ==
  IF s = <<>> THEN <<>>
  ELSE LET i == FirstIn(s, {"\n", "\r"})
       IN IF i = 0 THEN <<s>>
          ELSE LET skip == IF s[i] = "\r" /\ i < Len(s) /\ s[i + 1] = "\n" THEN 2 ELSE 1
               IN <<SubSeq(s, 1, i - 1)>> \o splitlines(SubSeq(s, i + skip, Len(s)))

\* Characters str.strip(), int() and the regular expression's \s treat as white space.
Whitespace == {" ", "\t", "\n", "\r"}

\* str.lstrip()
RECURSIVE lstrip(_)
lstrip(s) ==
  IF s # <<>> /\ s[1] \in Whitespace THEN lstrip(Tail(s)) ELSE s

\* str.rstrip()
RECURSIVE rstrip(_)
rstrip(s) ==
  IF s # <<>> /\ s[Len(s)] \in Whitespace THEN rstrip(SubSeq(s, 1, Len(s) - 1)) ELSE s

\* str.strip()
strip(s) == rstrip(lstrip(s))

Digits == <<"0", "1", "2", "3", "4", "5", "6", "7", "8", "9">>

IsDigit(c) == \E i \in 1..Len(Digits) : Digits[i] = c

DigitVal(c) == (CHOOSE i \in 1..Len(Digits) : Digits[i] = c) - 1

\* The part of an int() literal after white space and sign are removed.
IntBody(s) ==
  LET t == strip(s)
  IN IF t # <<>> /\ t[1] \in {"+", "-"} THEN Tail(t) ELSE t

\* Whether int(s) returns (TRUE) or raises ValueError (FALSE): optional white
\* space around, an optional sign, digits with single underscores between them.
IntOk(s) ==
  LET u == IntBody(s)
  IN /\ u # <<>>
     /\ \A i \in 1..Len(u) :
          \/ IsDigit(u[i])
          \/ /\ u[i] = "_"
             /\ 1 < i /\ i < Len(u)
             /\ IsDigit(u[i - 1]) /\ IsDigit(u[i + 1])

RECURSIVE DigitsValue(_, _)
DigitsValue(u, acc) ==
  IF u = <<>> THEN acc
  ELSE IF u[1] = "_" THEN DigitsValue(Tail(u), acc)
  ELSE DigitsValue(Tail(u), 10 * acc + DigitVal(u[1]))

\* int(s) where IntOk(s)
IntVal(s) ==
  LET t == strip(s)
      v == DigitsValue(IntBody(s), 0)
  IN IF t[1] = "-" THEN 0 - v ELSE v

\* path.split('/')[-1]
LastSegment(s) ==
  LET parts == Split(s, "/") IN parts[Len(parts)]

\* min of a non-empty set of integers
Min(S) == CHOOSE x \in S : \A y \in S : x <= y

(***************************************************************************)
(* compare_checkers.py: the four parsers                                   *)
(* A parser's outcome is [raised, errors]: raised names the exception      *)
(* that leaves the function ("none" when it returns), errors is the list   *)
(* it returns, of tuples <<file_path, line_number, error_message>>.        *)
(***************************************************************************)

TyMarker == <<"e","r","r","o","r">>
PyreflyMarker == <<"E","R","R","O","R">>
PyrightMarker == <<"/","U","s","e","r","s","/">>
PyreTag == <<"U","n","u","s","e","d"," ","i","g","n","o","r","e"," ","[","0","]",":">>

\* Outcome of the loop over the recognized lines: the first line whose body
\* raises ends the function, otherwise every recognized line appends a tuple.
LoopOutcome(steps) ==
  LET bad == {i \in 1..Len(steps) : steps[i].exc # "none"}
  IN IF bad # {}
     THEN [raised |-> steps[Min(bad)].exc, errors |-> <<>>]
     ELSE [raised |-> "none", errors |-> [i \in 1..Len(steps) |-> steps[i].rec]]

NoRec == <<>>

\* Loop body of parse_ty_output for a line that starts with 'error'.
ty_line(line) ==
  LET parts == Split(line, ":")
  IN IF Len(parts) < 2 THEN [exc |-> "IndexError", rec |-> NoRec]
     ELSE IF ~IntOk(parts[2]) THEN [exc |-> "ValueError", rec |-> NoRec]
     ELSE [exc |-> "none",
           rec |-> <<LastSegment(parts[1]), IntVal(parts[2]),
                     Join(SubSeq(parts, 3, Len(parts)), ":")>>]

ty_recognized(line) == StartsWith(line, TyMarker)

parse_ty_output(output) ==
  LET hits == SelectSeq(splitlines(output), ty_recognized)
  IN LoopOutcome([i \in 1..Len(hits) |-> ty_line(hits[i])])

\* Loop body of parse_pyrefly_output for a line that starts with 'ERROR'.
pyrefly_line(line) ==
  LET parts == Split(line, ":")
  IN IF Len(parts) < 2 THEN [exc |-> "IndexError", rec |-> NoRec]
     ELSE LET start == Split(parts[2], "-")[1]
          IN IF ~IntOk(start) THEN [exc |-> "ValueError", rec |-> NoRec]
             ELSE [exc |-> "none",
                   rec |-> <<LastSegment(parts[1]), IntVal(start),
                             Join(SubSeq(parts, 3, Len(parts)), ":")>>]

pyrefly_recognized(line) == StartsWith(line, PyreflyMarker)

parse_pyrefly_output(output) ==
  LET hits == SelectSeq(splitlines(output), pyrefly_recognized)
  IN LoopOutcome([i \in 1..Len(hits) |-> pyrefly_line(hits[i])])

\* Loop body of parse_pyright_output for a line that starts with '/Users/':
\* the line number is read from the second character of the path.
pyright_line(line) ==
  LET parts == Split(line, "-")
      file == parts[1]
      file_path == Split(file, ":")[1]
  IN IF Len(file_path) < 2 THEN [exc |-> "IndexError", rec |-> NoRec]
     ELSE IF ~IntOk(<<file_path[2]>>) THEN [exc |-> "ValueError", rec |-> NoRec]
     ELSE IF Len(parts) < 2 THEN [exc |-> "IndexError", rec |-> NoRec]
     ELSE [exc |-> "none",
           rec |-> <<file_path, IntVal(<<file_path[2]>>), strip(parts[2])>>]

pyright_recognized(line) == StartsWith(line, PyrightMarker)

parse_pyright_output(output) ==
  LET hits == SelectSeq(splitlines(output), pyright_recognized)
  IN LoopOutcome([i \in 1..Len(hits) |-> pyright_line(hits[i])])

\* Loop body of parse_pyper_output for a line that ends with the tag.
pyper_line(line) ==
  LET parts == Split(line, ":")
  IN IF Len(parts) < 2 THEN [exc |-> "IndexError", rec |-> NoRec]
     ELSE IF ~IntOk(parts[2]) THEN [exc |-> "ValueError", rec |-> NoRec]
     ELSE [exc |-> "none",
           rec |-> <<LastSegment(parts[1]), IntVal(parts[2]),
                     Join(SubSeq(parts, 3, Len(parts)), ":") \o PyreTag>>]

\* A plausible slip: the tag is looked for at the start of the line.
pyper_recognized_start(line) == StartsWith(line, PyreTag)

pyper_recognized(line) == EndsWith(line, PyreTag)

parse_pyper_output(output) ==
  LET hits == SelectSeq(splitlines(output), pyper_recognized)
  IN LoopOutcome([i \in 1..Len(hits) |-> pyper_line(hits[i])])

Checkers == {"ty", "pyrefly", "pyright", "pyre"}

\* The if/elif chain of compare_outputs that picks the parser.
parse_for(checker, output) ==
  CASE checker = "ty" -> parse_ty_output(output)
    [] checker = "pyrefly" -> parse_pyrefly_output(output)
    [] checker = "pyright" -> parse_pyright_output(output)
    [] checker = "pyre" -> parse_pyper_output(output)
    [] OTHER -> [raised |-> "none", errors |-> <<>>]

(***************************************************************************)
(* compare_checkers.py: compare_outputs                                    *)
(* The dict errors is a sequence of entries in insertion order:            *)
(* [key, checkers, error_message].                                         *)
(***************************************************************************)

KeyIndex(errors, key) ==
  IF \E i \in 1..Len(errors) : errors[i].key = key
  THEN CHOOSE i \in 1..Len(errors) : errors[i].key = key
  ELSE 0

\* A plausible slip: a later checker replaces the set instead of joining it.
add_error_overwrite(errors, checker, error) ==
  LET key == <<error[1], error[2]>>
      i == KeyIndex(errors, key)
  IN IF i = 0
     THEN Append(errors, [key |-> key, checkers |-> {checker}, error_message |-> error[3]])
     ELSE [errors EXCEPT ![i].checkers = {checker}]

\* Body of the loop over parsed_output: the first record at a key creates the
\* entry with its message, every later one only adds its checker.
add_error(errors, checker, error) ==
  LET key == <<error[1], error[2]>>
      i == KeyIndex(errors, key)
  IN IF i = 0
     THEN Append(errors, [key |-> key, checkers |-> {checker}, error_message |-> error[3]])
     ELSE [errors EXCEPT ![i].checkers = @ \cup {checker}]

RECURSIVE add_all(_, _, _)
add_all(errors, checker, parsed_output) ==
  IF parsed_output = <<>> THEN errors
  ELSE add_all(add_error(errors, checker, parsed_output[1]), checker, Tail(parsed_output))

\* The loop over outputs.items(): order is the dict's insertion order, parsed
\* maps each checker to its parsed_output.
RECURSIVE merge_outputs(_, _, _)
merge_outputs(errors, order, parsed) ==
  IF order = <<>> THEN errors
  ELSE merge_outputs(add_all(errors, order[1], parsed[order[1]]), Tail(order), parsed)

\* A plausible slip: >= 1 in place of > 1.
is_common_any(value) == Cardinality(value.checkers) >= 1

is_common(value) == Cardinality(value.checkers) > 1

is_unique(value) == Cardinality(value.checkers) = 1

\* The first checker, in dict order, whose parser raises; 0 when none does.
FirstRaise(order, outs) ==
  LET bad == {i \in 1..Len(order) : parse_for(order[i], outs[order[i]]).raised # "none"}
  IN IF bad = {} THEN 0 ELSE Min(bad)

(***************************************************************************)
(* compare_pyright_pyrefly.py: DIAG_RE and parse                           *)
(***************************************************************************)

ErrorWord == <<"E","R","R","O","R">>

\* Group 'path' of DIAG_RE, stripped, for the text p that precedes the first
\* colon of a matching line: ^\s*(?:ERROR\s+)?(?P<path>[^:]+) with the
\* regular expression's greedy choices and backtracking.
DiagPath(p) ==
  LET q == lstrip(p)
  IN IF StartsWith(q, ErrorWord) /\ Len(q) > Len(ErrorWord)
        /\ q[Len(ErrorWord) + 1] \in Whitespace
     THEN LET afterWord == SubSeq(q, Len(ErrorWord) + 1, Len(q))
              tail == lstrip(afterWord)
          IN IF tail # <<>> THEN strip(tail)
             ELSE IF Len(afterWord) >= 2 THEN <<>>
             ELSE strip(q)
     ELSE strip(q)

\* End of the run of digits that starts at index i of s (i - 1 when none).
RECURSIVE DigitsEnd(_, _)
DigitsEnd(s, i) ==
  IF i <= Len(s) /\ IsDigit(s[i]) THEN DigitsEnd(s, i + 1) ELSE i - 1

\* DIAG_RE.match(line): [matched, path, row, rest], path and rest stripped.
DiagMatch(line) ==
  LET c == FirstIn(line, {":"})
      e == DigitsEnd(line, c + 1)
  IN IF c > 1 /\ e > c /\ e < Len(line) /\ line[e + 1] = ":"
     THEN [matched |-> TRUE,
           path |-> DiagPath(SubSeq(line, 1, c - 1)),
           row |-> SubSeq(line, c + 1, e),
           rest |-> strip(SubSeq(line, e + 2, Len(line)))]
     ELSE [matched |-> FALSE, path |-> <<>>, row |-> <<>>, rest |-> <<>>]

diag_matches(line) == DiagMatch(line).matched

\* parse(text): the list of (path, row, rest_of_line), row kept as text.
parse(text) ==
  LET hits == SelectSeq(splitlines(text), diag_matches)
  IN [i \in 1..Len(hits) |->
        <<DiagMatch(hits[i]).path, DiagMatch(hits[i]).row, DiagMatch(hits[i]).rest>>]

(***************************************************************************)
(* compare_pyright_pyrefly.py: the sets and maps of main                   *)
(***************************************************************************)

\* f"{p}:{row}:{rest}"
FullKey(item) == item[1] \o <<":">> \o item[2] \o <<":">> \o item[3]

\* f"{p}:{row}"
RowKey(item) == item[1] \o <<":">> \o item[2]

Items(list) == {list[i] : i \in 1..Len(list)}

full_set(list) == {FullKey(x) : x \in Items(list)}

row_set(list) == {RowKey(x) : x \in Items(list)}

\* to_map(items): path:row -> {messages}
to_map(list) ==
  [k \in row_set(list) |-> {x[3] : x \in {y \in Items(list) : RowKey(y) = k}}]

\* A plausible slip: the difference is taken on locations, not on exact text.
only_full_by_row(a_list, b_list) ==
  {FullKey(x) : x \in {y \in Items(a_list) : RowKey(y) \notin row_set(b_list)}}

\* py_only_full, pr_only_full: a_full - b_full
only_full(a_list, b_list) == full_set(a_list) \ full_set(b_list)

\* py_only_rows, pr_only_rows: a_rows - b_rows
only_rows(a_list, b_list) == row_set(a_list) \ row_set(b_list)

\* overlapping_locs: py_rows & pr_rows
overlap_rows(a_list, b_list) == row_set(a_list) \cap row_set(b_list)

\* sorted(S) of a set of str
RECURSIVE sorted(_)
sorted(S) ==
  IF S = {} THEN <<>>
  ELSE LET m == CHOOSE x \in S : \A y \in S \ {x} : StrLess(x, y)
       IN <<m>> \o sorted(S \ {m})

\* The lines printed for a set of one-tool locations: for key in sorted(rows),
\* for msg in sorted(map[key]).
RECURSIVE only_lines(_, _)
only_lines(keys, map) ==
  IF keys = <<>> THEN <<>>
  ELSE LET msgs == sorted(map[keys[1]])
       IN [i \in 1..Len(msgs) |-> <<keys[1], msgs[i]>>] \o only_lines(Tail(keys), map)

\* The groups printed in agree-only mode: for loc in sorted(overlapping_locs).
agreed_groups(locs, pymap, prmap) ==
  LET keys == sorted(locs)
  IN [i \in 1..Len(keys) |->
        [loc |-> keys[i], pyright |-> sorted(pymap[keys[i]]), pyrefly |-> sorted(prmap[keys[i]])]]

(***************************************************************************)
(* Texts the checkers print.  Each run draws up to MaxLines lines.         *)
(***************************************************************************)

\* ty check --output-format concise
TyLines ==
    \* error /p/a.py:9:m
  { <<"e","r","r","o","r"," ","/","p","/","a",".","p","y",":","9",":","m">>,
    \* error /p/a.py:9:k
    <<"e","r","r","o","r"," ","/","p","/","a",".","p","y",":","9",":","k">>,
    \* error /p/a.py:0:z
    <<"e","r","r","o","r"," ","/","p","/","a",".","p","y",":","0",":","z">>,
    \* error:/proj/foo.py:12:unused variable
    <<"e","r","r","o","r",":","/","p","r","o","j","/","f","o","o",".","p","y",":","1","2",":","u","n","u","s","e","d"," ","v","a","r","i","a","b","l","e">>,
    \* error
    <<"e","r","r","o","r">>,
    \* note: ok
    <<"n","o","t","e",":"," ","o","k">> }

\* pyrefly check
PyreflyLines ==
    \* ERROR /p/a.py:9-11:m
  { <<"E","R","R","O","R"," ","/","p","/","a",".","p","y",":","9","-","1","1",":","m">>,
    \* ERROR /q/b.py:1:q
    <<"E","R","R","O","R"," ","/","q","/","b",".","p","y",":","1",":","q">>,
    \* ERROR /p/a.py:x:q
    <<"E","R","R","O","R"," ","/","p","/","a",".","p","y",":","x",":","q">>,
    \*  INFO ok
    <<" ","I","N","F","O"," ","o","k">> }

\* pyright
PyrightLines ==
    \* /Users/u/a.py:9 - m
  { <<"/","U","s","e","r","s","/","u","/","a",".","p","y",":","9"," ","-"," ","m">>,
    \* 0 errors
    <<"0"," ","e","r","r","o","r","s">> }

\* pyre
PyreLines ==
    \* /proj/bar.py:5:msg text:Unused ignore [0]:
  { <<"/","p","r","o","j","/","b","a","r",".","p","y",":","5",":","m","s","g"," ","t","e","x","t",":","U","n","u","s","e","d"," ","i","g","n","o","r","e"," ","[","0","]",":">>,
    \* /p/a.py:9:u:Unused ignore [0]:
    <<"/","p","/","a",".","p","y",":","9",":","u",":","U","n","u","s","e","d"," ","i","g","n","o","r","e"," ","[","0","]",":">>,
    \* /p/a.py:9:u
    <<"/","p","/","a",".","p","y",":","9",":","u">>,
    \* Unused ignore [0]:
    <<"U","n","u","s","e","d"," ","i","g","n","o","r","e"," ","[","0","]",":">> }

CheckerLines ==
  ({"ty"} \X TyLines) \cup ({"pyrefly"} \X PyreflyLines)
    \cup ({"pyright"} \X PyrightLines) \cup ({"pyre"} \X PyreLines)

\* pyright, as compare_pyright_pyrefly.py reads it
PyLines ==
    \*   /p/a.py:9:1 - e
  { <<" "," ","/","p","/","a",".","p","y",":","9",":","1"," ","-"," ","e">>,
    \* a.py:10: m
    <<"a",".","p","y",":","1","0",":"," ","m">>,
    \* a.py:9: m
    <<"a",".","p","y",":","9",":"," ","m">>,
    \* a.py:0: z
    <<"a",".","p","y",":","0",":"," ","z">>,
    \* 0 errors
    <<"0"," ","e","r","r","o","r","s">> }

\* pyrefly check --output-format=min-text
PrLines ==
    \* ERROR a.py:9: m
  { <<"E","R","R","O","R"," ","a",".","p","y",":","9",":"," ","m">>,
    \* ERROR a.py:9: k
    <<"E","R","R","O","R"," ","a",".","p","y",":","9",":"," ","k">>,
    \* ERROR a.py:10: m
    <<"E","R","R","O","R"," ","a",".","p","y",":","1","0",":"," ","m">>,
    \* ERROR /p/a.py:9:1 - e
    <<"E","R","R","O","R"," ","/","p","/","a",".","p","y",":","9",":","1"," ","-"," ","e">>,
    \*  INFO ok
    <<" ","I","N","F","O"," ","o","k">> }

ToolLines == ({"pyright"} \X PyLines) \cup ({"pyrefly"} \X PrLines)

\* Every way to print at most MaxLines lines drawn from pairs <<tool, line>>.
Feeds(pairs) == UNION {[1..n -> pairs] : n \in 0..MaxLines}

\* What one tool wrote to its stdout in a feed: its lines, each ended by \n.
RECURSIVE Captured(_, _)
Captured(feed, tool) ==
  IF feed = <<>> THEN <<>>
  ELSE IF feed[1][1] = tool THEN feed[1][2] \o <<"\n">> \o Captured(Tail(feed), tool)
  ELSE Captured(Tail(feed), tool)

\* The order in which main fills the dict outputs.
MainOrder == <<"ty", "pyrefly", "pyright", "pyre">>

Reverse(s) == [i \in 1..Len(s) |-> s[Len(s) + 1 - i]]

\* Insertion orders of the dict handed to compare_outputs.
Orders == {MainOrder, Reverse(MainOrder)}

(***************************************************************************)
(* State                                                                   *)
(***************************************************************************)

VARIABLES
  script,           \* which of the two scripts runs
  pc,               \* "start", "done" or "raised"
  raised,           \* the exception that ended the run, "none" otherwise
  outputs,          \* compare_checkers: checker -> captured stdout
  order,            \* compare_checkers: insertion order of outputs
  parsed,           \* compare_checkers: checker -> parsed_output, once its parser returned
  errors,           \* compare_checkers: the dict errors
  common_errors,    \* compare_checkers: entries printed under "Common errors:"
  unique_errors,    \* compare_checkers: entries printed under "Unique errors:"
  agree_only,       \* compare_pyright_pyrefly: args.agree_only
  py_raw, pr_raw,   \* compare_pyright_pyrefly: captured text of each tool
  py_list, pr_list,
  overlapping_locs,
  py_only_full, pr_only_full,
  py_map, pr_map,
  py_only_rows, pr_only_rows,
  printed           \* compare_pyright_pyrefly: what the report lists

ccVars == <<outputs, order, parsed, errors, common_errors, unique_errors>>

ppVars == <<agree_only, py_raw, pr_raw, py_list, pr_list, overlapping_locs,
            py_only_full, pr_only_full, py_map, pr_map, py_only_rows, pr_only_rows,
            printed>>

vars == <<script, pc, raised, ccVars, ppVars>>

NothingPrinted == [agreed |-> <<>>, pyright_only |-> <<>>, pyrefly_only |-> <<>>]

ccIdle ==
  /\ outputs = [c \in Checkers |-> <<>>]
  /\ order = MainOrder
  /\ parsed = <<>>
  /\ errors = <<>>
  /\ common_errors = <<>>
  /\ unique_errors = <<>>

ppIdle ==
  /\ agree_only = FALSE
  /\ py_raw = <<>> /\ pr_raw = <<>>
  /\ py_list = <<>> /\ pr_list = <<>>
  /\ overlapping_locs = {}
  /\ py_only_full = {} /\ pr_only_full = {}
  /\ py_map = <<>> /\ pr_map = <<>>
  /\ py_only_rows = {} /\ pr_only_rows = {}
  /\ printed = NothingPrinted

\* compare_checkers.py is about to call compare_outputs(outputs).
InitCompareCheckers ==
  /\ script = "compare_checkers"
  /\ \E feed \in Feeds(CheckerLines) :
       outputs = [c \in Checkers |-> Captured(feed, c)]
  /\ order \in Orders
  /\ parsed = <<>>
  /\ errors = <<>>
  /\ common_errors = <<>>
  /\ unique_errors = <<>>
  /\ ppIdle

\* compare_pyright_pyrefly.py has run both tools and holds py_raw and pr_raw.
InitComparePyrightPyrefly ==
  /\ script = "compare_pyright_pyrefly"
  /\ agree_only \in BOOLEAN
  /\ \E feed \in Feeds(ToolLines) :
       /\ py_raw = Captured(feed, "pyright")
       /\ pr_raw = Captured(feed, "pyrefly")
  /\ py_list = <<>> /\ pr_list = <<>>
  /\ overlapping_locs = {}
  /\ py_only_full = {} /\ pr_only_full = {}
  /\ py_map = <<>> /\ pr_map = <<>>
  /\ py_only_rows = {} /\ pr_only_rows = {}
  /\ printed = NothingPrinted
  /\ ccIdle

Init ==
  /\ pc = "start"
  /\ raised = "none"
  /\ InitCompareCheckers \/ InitComparePyrightPyrefly

(***************************************************************************)
(* Operations                                                              *)
(***************************************************************************)

\* compare_checkers.compare_outputs(outputs), as a whole, for a dict with
\* insertion order `order` and values `outs`: parse every output in dict order,
\* merge the records by (file, line), split into common and unique.  An
\* exception in a parser leaves the function before anything is printed;
\* parsed holds the parsed_output of the checkers reached before it, and
\* errors the records merged from them (each checker is merged right after it
\* is parsed).
compare_outputs_result(order_, outs) ==
  LET r == FirstRaise(order_, outs)
      reached == IF r = 0 THEN Len(order_) ELSE r - 1
      p == [c \in {order_[i] : i \in 1..reached} |-> parse_for(c, outs[c]).errors]
      e == merge_outputs(<<>>, SubSeq(order_, 1, reached), p)
  IN IF r # 0
     THEN [pc |-> "raised",
           raised |-> parse_for(order_[r], outs[order_[r]]).raised,
           parsed |-> p,
           errors |-> e,
           common_errors |-> <<>>, unique_errors |-> <<>>]
     ELSE [pc |-> "done",
           raised |-> "none",
           parsed |-> p,
           errors |-> e,
           common_errors |-> SelectSeq(e, is_common),
           unique_errors |-> SelectSeq(e, is_unique)]

\* The assignments compare_outputs ends with.
compare_outputs_ends(res) ==
  /\ pc' = res.pc
  /\ raised' = res.raised
  /\ parsed' = res.parsed
  /\ errors' = res.errors
  /\ common_errors' = res.common_errors
  /\ unique_errors' = res.unique_errors

compare_outputs ==
  /\ script = "compare_checkers"
  /\ pc = "start"
  /\ compare_outputs_ends(compare_outputs_result(order, outputs))
  /\ UNCHANGED <<script, outputs, order, ppVars>>

\* compare_pyright_pyrefly.main(), from py_list = parse(py_raw) to the report,
\* for the flag --agree-only and the two captured texts.
main_result(agree, pyraw, prraw) ==
  LET pyl == parse(pyraw)
      prl == parse(prraw)
      locs == overlap_rows(pyl, prl)
      pym == to_map(pyl)
      prm == to_map(prl)
      pyo == only_rows(pyl, prl)
      pro == only_rows(prl, pyl)
  IN [py_list |-> pyl,
      pr_list |-> prl,
      overlapping_locs |-> locs,
      py_only_full |-> only_full(pyl, prl),
      pr_only_full |-> only_full(prl, pyl),
      py_map |-> pym,
      pr_map |-> prm,
      py_only_rows |-> pyo,
      pr_only_rows |-> pro,
      printed |->
        IF agree
        THEN [agreed |-> agreed_groups(locs, pym, prm),
              pyright_only |-> <<>>, pyrefly_only |-> <<>>]
        ELSE [agreed |-> <<>>,
              pyright_only |-> only_lines(sorted(pyo), pym),
              pyrefly_only |-> only_lines(sorted(pro), prm)]]

\* The assignments main ends with.
main_ends(res) ==
  /\ py_list' = res.py_list
  /\ pr_list' = res.pr_list
  /\ overlapping_locs' = res.overlapping_locs
  /\ py_only_full' = res.py_only_full
  /\ pr_only_full' = res.pr_only_full
  /\ py_map' = res.py_map
  /\ pr_map' = res.pr_map
  /\ py_only_rows' = res.py_only_rows
  /\ pr_only_rows' = res.pr_only_rows
  /\ printed' = res.printed

main ==
  /\ script = "compare_pyright_pyrefly"
  /\ pc = "start"
  /\ main_ends(main_result(agree_only, py_raw, pr_raw))
  /\ pc' = "done"
  /\ UNCHANGED <<script, raised, agree_only, py_raw, pr_raw, ccVars>>

Next == compare_outputs \/ main

Spec == Init /\ [][Next]_vars

(***************************************************************************)
(* Properties                                                              *)
(***************************************************************************)

InCompareCheckers == script = "compare_checkers"

InPyrightPyrefly == script = "compare_pyright_pyrefly"

\* The (file, line) of a parsed tuple.
KeyOf(rec) == <<rec[1], rec[2]>>

\* Checkers whose parser returned a record at key.
ReportedBy(key) ==
  {c \in DOMAIN parsed : \E r \in Items(parsed[c]) : KeyOf(r) = key}

\* Every (file, line) some checker's parser returned.
ReportedKeys == UNION {{KeyOf(r) : r \in Items(parsed[c])} : c \in DOMAIN parsed}

EntryKeys(entries) == {entries[i].key : i \in 1..Len(entries)}

SameLocation(x, y) == x[1] = y[1] /\ x[2] = y[2]

\* C1: after a run, every location reported by at least one tool is in exactly
\* one partition: agreed when two or more distinct tools reported it, exclusive
\* when exactly one did; never both, never neither.
C1_Partition ==
  pc = "done" =>
    /\ InCompareCheckers =>
         \A key \in ReportedKeys :
           LET agreed == key \in EntryKeys(common_errors)
               exclusive == key \in EntryKeys(unique_errors)
           IN /\ agreed <=> Cardinality(ReportedBy(key)) >= 2
              /\ exclusive <=> Cardinality(ReportedBy(key)) = 1
              /\ agreed \/ exclusive
              /\ ~(agreed /\ exclusive)
    /\ InPyrightPyrefly =>
         \A x \in Items(py_list) \cup Items(pr_list) :
           LET inPy == \E y \in Items(py_list) : SameLocation(x, y)
               inPr == \E y \in Items(pr_list) : SameLocation(x, y)
               agreed == RowKey(x) \in overlapping_locs
               exclusive == RowKey(x) \in py_only_rows \cup pr_only_rows
           IN /\ agreed <=> (inPy /\ inPr)
              /\ RowKey(x) \in py_only_rows <=> (inPy /\ ~inPr)
              /\ RowKey(x) \in pr_only_rows <=> (inPr /\ ~inPy)
              /\ agreed \/ exclusive
              /\ ~(agreed /\ exclusive)

\* C1 witness: a finished compare_outputs run with an agreed location and an
\* exclusive one.
C1_Witness ==
  /\ InCompareCheckers /\ pc = "done"
  /\ common_errors # <<>>
  /\ unique_errors # <<>>

\* C2, as stated: no raw text makes a parser raise; a marked line whose line
\* number is missing or not an integer is skipped.
C2_NeverRaises == pc # "raised"

\* C3, as stated: every emitted record has an integer line number >= 1.
C3_LinePositive ==
  /\ \A c \in DOMAIN parsed : \A r \in Items(parsed[c]) : r[2] >= 1
  /\ \A x \in Items(py_list) \cup Items(pr_list) : IntOk(x[2]) /\ IntVal(x[2]) >= 1

AllDigits(s) == s # <<>> /\ \A i \in 1..Len(s) : IsDigit(s[i])

\* A Tool A line of the form error:<path>:<n>:<message>, n a positive integer.
TyClaimedForm(line) ==
  LET parts == Split(line, ":")
  IN /\ Len(parts) >= 4
     /\ parts[1] = TyMarker
     /\ parts[2] # <<>>
     /\ AllDigits(parts[3]) /\ IntVal(parts[3]) >= 1

TyClaimedRecord(line) ==
  LET parts == Split(line, ":")
  IN <<LastSegment(parts[2]), IntVal(parts[3]), Join(SubSeq(parts, 4, Len(parts)), ":")>>

OnlyTyPrinted == \A c \in Checkers \ {"ty"} : outputs[c] = <<>>

\* C4, as stated: a Tool A line error:<path>:<n>:<message> yields the record
\* (final segment of path, n, message), and with no other tool reporting there
\* the location is listed as exclusive to Tool A with that message.
C4_TyLineForm ==
  (InCompareCheckers /\ pc # "start" /\ OnlyTyPrinted) =>
    \A line \in Items(splitlines(outputs["ty"])) :
      TyClaimedForm(line) =>
        /\ pc = "done"
        /\ TyClaimedRecord(line) \in Items(parsed["ty"])
        /\ \E i \in 1..Len(unique_errors) :
             /\ unique_errors[i].key = KeyOf(TyClaimedRecord(line))
             /\ unique_errors[i].checkers = {"ty"}

NoSeparator(path) == \A i \in 1..Len(path) : path[i] # "/"

\* C5, as stated: in every adapter the path of a record is its final segment.
C5_Basename ==
  /\ \A c \in DOMAIN parsed : \A r \in Items(parsed[c]) : NoSeparator(r[1])
  /\ \A x \in Items(py_list) \cup Items(pr_list) : NoSeparator(x[1])

\* C6: two tools reporting at the same (path, line) with different text agree on
\* the location, and each diagnostic whose exact text the other tool lacks is
\* exclusive to its tool; a diagnostic both tools report with the same
\* (path, line, message) is exclusive to neither.
C6_ExactText ==
  (InPyrightPyrefly /\ pc = "done") =>
    \A x \in Items(py_list) : \A y \in Items(pr_list) :
      SameLocation(x, y) =>
        /\ RowKey(x) \in overlapping_locs
        /\ (x[3] # y[3] /\ x \notin Items(pr_list)) => FullKey(x) \in py_only_full
        /\ (x[3] # y[3] /\ y \notin Items(py_list)) => FullKey(y) \in pr_only_full
        /\ x = y => FullKey(x) \notin py_only_full \cup pr_only_full

\* C6 witness: both tools report at one location, with different text.
C6_Witness ==
  /\ InPyrightPyrefly /\ pc = "done"
  /\ \E x \in Items(py_list) : \E y \in Items(pr_list) :
       /\ SameLocation(x, y) /\ x[3] # y[3]
       /\ x \notin Items(pr_list) /\ y \notin Items(py_list)

\* Every insertion order of the four checkers.
AllOrders ==
  {o \in [1..Len(MainOrder) -> Checkers] :
     \A i, j \in 1..Len(MainOrder) : i # j => o[i] # o[j]}

Classification(entries) == {<<entries[i].key, entries[i].checkers>> : i \in 1..Len(entries)}

\* C7: the contributing tools of every location, and so its partition, are the
\* same whatever the order in which the tools' inputs are supplied.
C7_OrderIndependent ==
  pc = "done" =>
    /\ InCompareCheckers =>
         \A o \in AllOrders :
           LET e == merge_outputs(<<>>, o, parsed)
           IN /\ Classification(e) = Classification(errors)
              /\ EntryKeys(SelectSeq(e, is_common)) = EntryKeys(common_errors)
              /\ EntryKeys(SelectSeq(e, is_unique)) = EntryKeys(unique_errors)
    /\ InPyrightPyrefly =>
         /\ overlap_rows(pr_list, py_list) = overlapping_locs
         /\ only_rows(pr_list, py_list) \cup only_rows(py_list, pr_list)
              = py_only_rows \cup pr_only_rows

\* C7 witness: a run fed in the reverse of main's order that ends with an
\* agreed location.
C7_Witness ==
  /\ InCompareCheckers /\ pc = "done"
  /\ order = Reverse(MainOrder)
  /\ \E i \in 1..Len(errors) : Cardinality(errors[i].checkers) >= 2

\* C8, as stated: the group of a location keeps every message of every
\* record reported there.
C8_AllMessagesKept ==
  pc = "done" =>
    /\ InCompareCheckers =>
         \A c \in DOMAIN parsed : \A r \in Items(parsed[c]) :
           \E i \in 1..Len(errors) :
             errors[i].key = KeyOf(r) /\ errors[i].error_message = r[3]
    /\ InPyrightPyrefly =>
         /\ \A x \in Items(py_list) : x[3] \in py_map[RowKey(x)]
         /\ \A x \in Items(pr_list) : x[3] \in pr_map[RowKey(x)]

\* Order of Location Keys: by path, then by line number as an integer.
KeyBefore(k1, k2) ==
  \/ StrLess(k1[1], k2[1])
  \/ k1[1] = k2[1] /\ k1[2] <= k2[2]

\* The Location Key of a printed "path:row".
LocKey(loc) ==
  LET f == Split(loc, ":") IN <<f[1], IntVal(f[2])>>

\* C9, as stated: agreed groups and each tool's exclusive listing come out in
\* ascending order of (path, line), line compared as an integer.
C9_SortedOutput ==
  pc = "done" =>
    /\ InCompareCheckers =>
         /\ \A i, j \in 1..Len(common_errors) :
              i < j => KeyBefore(common_errors[i].key, common_errors[j].key)
         /\ \A c \in Checkers : \A i, j \in 1..Len(unique_errors) :
              (i < j /\ c \in unique_errors[i].checkers /\ c \in unique_errors[j].checkers)
                => KeyBefore(unique_errors[i].key, unique_errors[j].key)
    /\ InPyrightPyrefly =>
         /\ \A i, j \in 1..Len(printed.agreed) :
              i < j => KeyBefore(LocKey(printed.agreed[i].loc), LocKey(printed.agreed[j].loc))
         /\ \A i, j \in 1..Len(printed.pyright_only) :
              i < j => KeyBefore(LocKey(printed.pyright_only[i][1]),
                                 LocKey(printed.pyright_only[j][1]))
         /\ \A i, j \in 1..Len(printed.pyrefly_only) :
              i < j => KeyBefore(LocKey(printed.pyrefly_only[i][1]),
                                 LocKey(printed.pyrefly_only[j][1]))

HasTag(line) == EndsWith(line, PyreTag)

\* line is path ":" n ":" text ":" tag, and rec is (basename of path, n, a
\* message that ends with the tag).
TagFormRecord(line, rec) ==
  \E i, j \in 1..Len(line) :
    /\ i < j /\ line[i] = ":" /\ line[j] = ":"
    /\ j + Len(PyreTag) < Len(line)
    /\ LET path == SubSeq(line, 1, i - 1)
           n == SubSeq(line, i + 1, j - 1)
       IN /\ path # <<>> /\ \A k \in 1..Len(path) : path[k] # ":"
          /\ AllDigits(n)
          /\ line[Len(line) - Len(PyreTag)] = ":"
          /\ NoSeparator(rec[1])
          /\ rec[1] = path \/ EndsWith(path, <<"/">> \o rec[1])
          /\ rec[2] = IntVal(n)
          /\ EndsWith(rec[3], PyreTag)

TagForm(line) ==
  \E i, j \in 1..Len(line) :
    /\ i < j /\ line[i] = ":" /\ line[j] = ":"
    /\ j + Len(PyreTag) < Len(line)
    /\ i > 1 /\ \A k \in 1..(i - 1) : line[k] # ":"
    /\ AllDigits(SubSeq(line, i + 1, j - 1))
    /\ line[Len(line) - Len(PyreTag)] = ":"

\* C10: each Tool D line <path>:<n>:<text>:<tag> that ends with the tag yields
\* exactly one record (basename of path, n, message ending with the tag), and a
\* line that does not end with the tag yields none.
C10_TagLine ==
  (InCompareCheckers /\ "pyre" \in DOMAIN parsed) =>
    LET tagged == SelectSeq(splitlines(outputs["pyre"]), HasTag)
    IN /\ Len(parsed["pyre"]) = Len(tagged)
       /\ \A i \in 1..Len(tagged) :
            TagForm(tagged[i]) => TagFormRecord(tagged[i], parsed["pyre"][i])

\* C10 witness: the pyre parser returned the record of
\* "/proj/bar.py:5:msg text:Unused ignore [0]:".
C10_Witness ==
  /\ InCompareCheckers /\ "pyre" \in DOMAIN parsed
  /\ \E r \in Items(parsed["pyre"]) :
       /\ r[1] = <<"b","a","r",".","p","y">> /\ r[2] = 5
       /\ r[3] = <<"m","s","g"," ","t","e","x","t",":","U","n","u","s","e","d"," ","i","g","n","o","r","e"," ","[","0","]",":","U","n","u","s","e","d"," ","i","g","n","o","r","e"," ","[","0","]",":">>

====
